---- MODULE Spec2Model ----
(***************************************************************************)
(* Model of lib/repository.py: the add-on Repository (entry store, TTL     *)
(* caches, release resolver, concurrent fetch-merge of addons.xml, asset   *)
(* URL resolver).                                                          *)
(***************************************************************************)
EXTENDS Integers, Sequences, FiniteSets, TLC

VARIABLES
    platform,     \* self._platform.name()
    max_threads,  \* self._max_threads
    addons,       \* self._addons: OrderedDict, as the sequence of its ADDON values
    lastOp,       \* the public operation that ran last
    raised,       \* TRUE when the last operation ended in an exception
    beforeLoad,   \* history: the store when the source whose load raised was started
    lastSeen,     \* history: per id, the last entry the load loop iterated over
    lastAcc,      \* history: per id, the last entry that got past the platform filter
    replaced,     \* history: the ids the last load pass assigned over an existing record
    now,          \* the clock the TTL caches read, in seconds
    xmlCache,     \* the cache of get_addons_xml
    relCache,     \* the cache of get_latest_release, keyed by <<username, repository>>
    pc,           \* "idle", or "building" while get_addons_xml computes
    tasks,        \* the _get_addon_xml calls of the build, in dispatch order
    completed,    \* history: the task indices in the order the tasks ended
    ret,          \* what the last operation returned
    call,         \* history: the arguments and the network traffic of the last operation
    last,         \* history: the last manifest a build computed, and when
    peer          \* a second thread calling get_addons_xml on the same Repository

config == <<platform, max_threads>>

loadHist == <<beforeLoad, lastSeen, lastAcc, replaced>>

caches == <<xmlCache, relCache>>

vars == <<platform, max_threads, addons, lastOp, raised, beforeLoad, lastSeen, lastAcc,
          replaced, now, xmlCache, relCache, pc, tasks, completed, ret, call, last, peer>>

None == "<None>"

Ids == {"a", "b", "c"}

Platforms == {"linux", "windows"}

(***************************************************************************)
(* Raw entries, as json.load returns them: a dict, modelled as a record    *)
(* with the set of keys that are present.                                  *)
(***************************************************************************)
RawEntry(ks, i, u, br, as, ap, rp, pl) ==
    [keys |-> ks, id |-> i, username |-> u, branch |-> br, assets |-> as,
     asset_prefix |-> ap, repository |-> rp, platforms |-> pl]

NoEntry == RawEntry({}, "", "", "", {}, "", "", <<>>)

\* {"id": "a", "username": "u1"}
E1 == RawEntry({"id", "username"}, "a", "u1", "", {}, "", "", <<>>)
\* every optional key given, with an empty platform whitelist
E2 == RawEntry({"id", "username", "branch", "assets", "asset_prefix", "repository", "platforms"},
               "a", "u2", "dev",
               {<<"addon.xml", "meta/addon.xml">>, <<"zip", "dl/{id}-{version}.zip">>},
               "p/", "r", <<>>)
\* whitelisted for linux only; shares owner and repository with E1
E3 == RawEntry({"id", "username", "repository", "platforms"},
               "b", "u1", "", {}, "", "a", <<"linux">>)
\* {"id": "b", "username": "u3", "branch": ""}
E4 == RawEntry({"id", "username", "branch"}, "b", "u3", "", {}, "", "", <<>>)
\* {"id": "c", "username": "u1"}
E5 == RawEntry({"id", "username"}, "c", "u1", "", {}, "", "", <<>>)
\* {"id": "b"}: the required key "username" is missing
E6 == RawEntry({"id"}, "b", "", "", {}, "", "", <<>>)
\* {"username": "u1"}: the required key "id" is missing
E7 == RawEntry({"username"}, "", "u1", "", {}, "", "", <<>>)

ADDON(i, u, br, as, ap, rp) ==
    [id |-> i, username |-> u, branch |-> br, assets |-> as,
     asset_prefix |-> ap, repository |-> rp]

\* dict.get(key, default)
Get(e, key, default) == IF key \in e.keys THEN e[key] ELSE default

\* list membership: platform_name in platforms
InList(x, l) == \E i \in 1..Len(l) : l[i] = x

\* faulty variant: the filter without its `platforms and` test
SkippedNotListed(e, pn) == ~InList(pn, Get(e, "platforms", <<>>))

\* lines 119-123: `platforms and platform_name not in platforms`
Skipped(e, pn) ==
    LET platforms == Get(e, "platforms", <<>>)
    IN  Len(platforms) > 0 /\ ~InList(pn, platforms)

\* lines 118 and 126: the subscripts addon_data["id"], addon_data["username"]
\* raise KeyError on a missing key; the second is reached only past the filter
RaisesKeyError(e, pn) ==
    \/ "id" \notin e.keys
    \/ (~Skipped(e, pn) /\ "username" \notin e.keys)

\* lines 125-128: the ADDON built from an entry
MakeAddon(e) ==
    ADDON(e.id, e.username, Get(e, "branch", None), Get(e, "assets", {}),
          Get(e, "asset_prefix", ""), Get(e, "repository", e.id))

IndexOf(s, i) ==
    IF \E k \in 1..Len(s) : s[k].id = i
    THEN CHOOSE k \in 1..Len(s) : s[k].id = i
    ELSE 0

\* faulty variant: every assignment appends a new item
SetItemAppend(s, a) == Append(s, a)

\* OrderedDict.__setitem__: a new key is appended, an existing key keeps its place
SetItem(s, a) ==
    IF IndexOf(s, a.id) = 0 THEN Append(s, a)
    ELSE [s EXCEPT ![IndexOf(s, a.id)] = a]

\* _load_data: the loop over the entries of one source, from entry k on.
\* The result is the store and whether the loop raised.
RECURSIVE LoadFrom(_, _, _, _)
LoadFrom(s, data, k, pn) ==
    IF k > Len(data) THEN [addons |-> s, raised |-> FALSE]
    ELSE IF RaisesKeyError(data[k], pn) THEN [addons |-> s, raised |-> TRUE]
    ELSE IF Skipped(data[k], pn) THEN LoadFrom(s, data, k + 1, pn)
    ELSE LoadFrom(SetItem(s, MakeAddon(data[k])), data, k + 1, pn)

\* faulty variant: every load starts from an empty store
_load_dataFromEmpty(s, data, pn) == LoadFrom(<<>>, data, 1, pn)

_load_data(s, data, pn) == LoadFrom(s, data, 1, pn)

\* _load_url / _load_file: reading or parsing the source may raise before any
\* entry is looked at
LoadSource(s, src, pn) ==
    IF ~src.readable THEN [addons |-> s, raised |-> TRUE]
    ELSE _load_data(s, src.data, pn)

\* update (lines 100-106) on store s: the url source, then the file source; an
\* exception of one load ends the call. `before` is the store the raising
\* load started from (the result store when nothing raised).
UpdateResult(s, clear, u, f, pn) ==
    LET s0 == IF clear THEN <<>> ELSE s
        r1 == LoadSource(s0, u, pn)
        r2 == LoadSource(r1.addons, f, pn)
    IN  IF r1.raised
        THEN [addons |-> r1.addons, raised |-> TRUE, before |-> s0]
        ELSE [addons |-> r2.addons, raised |-> r2.raised,
              before |-> IF r2.raised THEN r1.addons ELSE r2.addons]

(***************************************************************************)
(* History of a load pass, computed from the inputs and not from the       *)
(* store: the entries the loop of _load_data got through.                  *)
(***************************************************************************)
FirstBad(data, pn) ==
    IF \E k \in 1..Len(data) : RaisesKeyError(data[k], pn)
    THEN CHOOSE k \in 1..Len(data) :
            /\ RaisesKeyError(data[k], pn)
            /\ \A j \in 1..(k - 1) : ~RaisesKeyError(data[j], pn)
    ELSE Len(data) + 1

SourceRaises(src, pn) == ~src.readable \/ FirstBad(src.data, pn) <= Len(src.data)

Iterated(src, pn) ==
    IF ~src.readable THEN <<>> ELSE SubSeq(src.data, 1, FirstBad(src.data, pn) - 1)

PassLog(u, f, pn) ==
    Iterated(u, pn) \o (IF SourceRaises(u, pn) THEN <<>> ELSE Iterated(f, pn))

LastWith(log, i, accOnly, pn) ==
    LET hits == {k \in 1..Len(log) :
                    log[k].id = i /\ (accOnly => ~Skipped(log[k], pn))}
    IN  IF hits = {} THEN 0 ELSE CHOOSE k \in hits : \A j \in hits : j <= k

History(old, clear, log, accOnly, pn) ==
    [i \in Ids |->
        IF LastWith(log, i, accOnly, pn) # 0 THEN log[LastWith(log, i, accOnly, pn)]
        ELSE IF clear THEN NoEntry ELSE old[i]]

\* the ids a pass assigns while the store already holds a record for them
Reassigned(s, clear, log, pn) ==
    {i \in Ids :
        Cardinality({k \in 1..Len(log) : log[k].id = i /\ ~Skipped(log[k], pn)})
            + (IF ~clear /\ (\E k \in 1..Len(s) : s[k].id = i) THEN 1 ELSE 0) >= 2}

(***************************************************************************)
(* The TTL cache of lib.cache (`cached(seconds=...)`): a value with its    *)
(* expiry, valid while the clock is before the expiry.  `old` is history:  *)
(* the entry was there when clear_cache last returned.                     *)
(***************************************************************************)
TTL == 3600

NoValue(empty) == [has |-> FALSE, value |-> empty, expiry |-> 0, old |-> FALSE]

Valid(c, t) == c.has /\ t < c.expiry

Stored(v, t) == [has |-> TRUE, value |-> v, expiry |-> t + TTL, old |-> FALSE]

\* the keys of the release cache: the <<username, repository>> argument pairs
RelKeys == {<<"u1", "a">>, <<"u1", "c">>, <<"u2", "r">>, <<"u3", "b">>}

EmptyRelCache == [k \in RelKeys |-> NoValue("")]

\* cache_clear() of a cached operation
cache_clear(c, empty) == NoValue(empty)

(***************************************************************************)
(* The releases endpoint (GITHUB_LATEST_RELEASE_URL): the request fails,   *)
(* or the JSON answer carries a tag_name, no tag_name, or a null tag_name. *)
(***************************************************************************)
ReleaseResponses == {"fail", "v1", "notag", "null"}

\* faulty variant: a failed request answered with the default, as _get_addon_xml
\* answers a failed fetch with None
ReleaseBodySwallow(resp, default) ==
    [raised |-> FALSE,
     value |-> IF resp = "v1" THEN "v1" ELSE IF resp = "null" THEN None ELSE default]

\* lines 136-137, the body of get_latest_release: json.loads(get_request(..))
\* raises on a failed request; data.get("tag_name", default) otherwise
ReleaseBody(resp, default) ==
    IF resp = "fail" THEN [raised |-> TRUE, value |-> None]
    ELSE [raised |-> FALSE,
          value |-> IF resp = "v1" THEN "v1"
                    ELSE IF resp = "null" THEN None
                    ELSE default]

\* get_latest_release(username, repository) through its cache rc at time t,
\* the endpoint answering resp if asked: the value, whether it raised, whether
\* a request was issued, and the cache afterwards
LatestRelease(rc, key, t, resp) ==
    IF Valid(rc[key], t)
    THEN [value |-> rc[key].value, raised |-> FALSE, net |-> 0, rel |-> rc,
          old |-> rc[key].old]
    ELSE LET b == ReleaseBody(resp, "master")
         IN  [value |-> b.value, raised |-> b.raised, net |-> 1,
              rel |-> IF b.raised THEN rc ELSE [rc EXCEPT ![key] = Stored(b.value, t)],
              old |-> FALSE]

\* `addon.branch or ...`: None and "" are both false
Truthy(branch) == branch # None /\ branch # ""

RelKey(addon) == <<addon.username, addon.repository>>

\* a resolved URL: the template chosen and what it was instantiated with
NoUrl == [kind |-> "", username |-> "", repository |-> "", branch |-> "",
          prefix |-> "", name |-> <<>>, version |-> <<>>, override |-> ""]

NoRet == [val |-> None, xml |-> <<>>, url |-> NoUrl]

NoCall == [arg |-> "", asset |-> <<>>, key |-> <<"", "">>, resp |-> "", net |-> 0,
           note |-> "", hit |-> FALSE, touched |-> FALSE]

NoLast == [state |-> "none", xml |-> <<>>, at |-> 0]

\* the second caller outside get_addons_xml
NoPeer == [pc |-> "idle", tasks |-> <<>>, completed |-> <<>>, raised |-> FALSE,
           hit |-> FALSE, xml |-> <<>>]

(***************************************************************************)
(* Inputs of a load pass.                                                  *)
(***************************************************************************)
MaxEntries == 2

LoadCatalogue == {E1, E2, E3, E4, E6, E7}

SeqsOfLen(S, k) == [1..k -> S]

SeqsUpTo(S, n) == UNION {SeqsOfLen(S, k) : k \in 0..n}

Readable(data) == [readable |-> TRUE, data |-> data]

Unreadable == [readable |-> FALSE, data |-> <<>>]

\* what the url and the file hold when update runs: together at most
\* MaxEntries entries, or one of them cannot be read or parsed
SourcePairs ==
    UNION {{<<Readable(u), Readable(f)>> :
               u \in SeqsOfLen(LoadCatalogue, k),
               f \in SeqsUpTo(LoadCatalogue, MaxEntries - k)} :
           k \in 0..MaxEntries}
    \cup {<<Unreadable, Readable(<<>>)>>}
    \cup {<<Readable(u), Unreadable>> : u \in SeqsUpTo(LoadCatalogue, 1)}

DefaultMaxThreads == 5

\* faulty variant: a reload that also invalidates the two caches
updateInvalidating(clear, u, f) ==
    /\ pc = "idle"
    /\ LET r == UpdateResult(addons, clear, u, f, platform)
           log == PassLog(u, f, platform)
       IN
        /\ addons' = r.addons
        /\ raised' = r.raised
        /\ beforeLoad' = r.before
        /\ lastSeen' = History(lastSeen, clear, log, FALSE, platform)
        /\ lastAcc' = History(lastAcc, clear, log, TRUE, platform)
        /\ replaced' = Reassigned(addons, clear, log, platform)
        /\ lastOp' = "update"
        /\ tasks' = <<>> /\ completed' = <<>>
        /\ ret' = NoRet
        /\ call' = [NoCall EXCEPT !.note = IF clear THEN "clear" ELSE "keep"]
        /\ xmlCache' = NoValue(<<>>) /\ relCache' = EmptyRelCache
        /\ UNCHANGED <<config, peer, now, pc, last>>

\* Repository.update(clear)
update(clear, u, f) ==
    /\ pc = "idle"
    /\ LET r == UpdateResult(addons, clear, u, f, platform)
           log == PassLog(u, f, platform)
       IN
        /\ addons' = r.addons
        /\ raised' = r.raised
        /\ beforeLoad' = r.before
        /\ lastSeen' = History(lastSeen, clear, log, FALSE, platform)
        /\ lastAcc' = History(lastAcc, clear, log, TRUE, platform)
        /\ replaced' = Reassigned(addons, clear, log, platform)
        /\ lastOp' = "update"
        /\ tasks' = <<>> /\ completed' = <<>>
        /\ ret' = NoRet
        /\ call' = [NoCall EXCEPT !.note = IF clear THEN "clear" ELSE "keep"]
        /\ UNCHANGED <<config, peer, now, caches, pc, last>>

\* Repository(files=(f,), urls=(u,)) whose sources were empty at construction
InitLoad ==
    /\ platform \in Platforms
    /\ max_threads = DefaultMaxThreads
    /\ addons = <<>>
    /\ lastOp = "init"
    /\ raised = FALSE
    /\ beforeLoad = <<>>
    /\ lastSeen = [i \in Ids |-> NoEntry]
    /\ lastAcc = [i \in Ids |-> NoEntry]
    /\ replaced = {}
    /\ now = 0
    /\ xmlCache = NoValue(<<>>)
    /\ relCache = EmptyRelCache
    /\ pc = "idle"
    /\ tasks = <<>>
    /\ completed = <<>>
    /\ ret = NoRet
    /\ call = NoCall
    /\ last = NoLast
    /\ peer = NoPeer

NextLoad ==
    \E clear \in BOOLEAN, p \in SourcePairs : update(clear, p[1], p[2])

SpecLoad == InitLoad /\ [][NextLoad]_vars

(***************************************************************************)
(* get_addons_xml: the cached build of the manifest.  A task is one        *)
(* _get_addon_xml(addon) call: queued, then resolving its branch (waiting  *)
(* for the releases endpoint), then fetching addon.xml, then done with an  *)
(* element ("ok"), with None ("none"), or with an exception ("exc").       *)
(***************************************************************************)
NewTask(addon) ==
    [addon |-> addon, st |-> "queued", branch |-> None, res |-> "pending",
     looked |-> FALSE, fetched |-> FALSE, usedOld |-> FALSE]

Min(x, y) == IF x < y THEN x ELSE y

\* line 155
NumThreads == Min(max_threads, Len(tasks))

\* line 156: the sequential path runs the calls one by one in the caller
Sequential == NumThreads <= 1

InFlight(t) == t.st \in {"lookup", "fetch"}

Running == {i \in 1..Len(tasks) : InFlight(tasks[i])}

\* the element _get_addon_xml returns: the addon.xml of the add-on at the branch
Fragment(t) == [id |-> t.addon.id, branch |-> t.branch]

RECURSIVE Collect(_, _, _)
Collect(ts, order, k) ==
    IF k > Len(order) THEN <<>>
    ELSE (IF ts[order[k]].res = "ok" THEN <<Fragment(ts[order[k]])>> ELSE <<>>)
            \o Collect(ts, order, k + 1)

\* faulty variant: the results appended as the tasks end
AssembleAsCompleted(ts, done) == Collect(ts, done, 1)

\* faulty variant: a node for every result, None included
AssembleEveryResult(ts, done) == [k \in 1..Len(ts) |-> Fragment(ts[k])]

\* lines 157-165: the results in the order of self._addons.values(), the
\* None results left out
Assemble(ts, done) == Collect(ts, [k \in 1..Len(ts) |-> k], 1)

(***************************************************************************)
(* get_addons_xml_md5.  The serialized manifest is the sequence of its     *)
(* fragments; a fragment is read as a number and the digest folds the      *)
(* numbers into 16 bits, so distinct manifests can share a digest.         *)
(***************************************************************************)
IdCode(i) == CASE i = "a" -> 1 [] i = "b" -> 2 [] i = "c" -> 3 [] OTHER -> 0

BranchCode(b) ==
    CASE b = "dev" -> 1 [] b = "v1" -> 2 [] b = "master" -> 3 [] b = None -> 4
      [] OTHER -> 5

FragmentCode(f) == 8 * IdCode(f.id) + BranchCode(f.branch)

\* md5().update(bytes).hexdigest()
RECURSIVE Md5From(_, _, _)
Md5From(h, xml, k) ==
    IF k > Len(xml) THEN h
    ELSE Md5From((31 * h + FragmentCode(xml[k])) % 65536, xml, k + 1)

Md5Hex(xml) == Md5From(Len(xml) + 7, xml, 1)

\* faulty variant: the digest taken before the manifest is fed to it
FingerprintOfNothing(xml) == Md5Hex(<<>>)

\* lines 170-172 on the bytes get_addons_xml returned
Fingerprint(xml) == Md5Hex(xml)

\* what the operation that asked for the manifest returns with it
Returned(op, xml) ==
    IF op = "get_addons_xml_md5" THEN [NoRet EXCEPT !.val = Fingerprint(xml)]
    ELSE [NoRet EXCEPT !.xml = xml]

\* the ghost note of a get_addons_xml call: what the caller knows of the
\* calls before it
CallNote ==
    IF last.state = "valid" /\ now < last.at + TTL THEN "again"
    ELSE IF last.state = "cleared" THEN "after_clear"
    ELSE "other"

\* get_addons_xml with a valid cache entry: the cached bytes, no computation
get_addons_xml_cached ==
    /\ pc = "idle"
    /\ Valid(xmlCache, now)
    /\ ret' = [NoRet EXCEPT !.xml = xmlCache.value]
    /\ call' = [NoCall EXCEPT !.note = CallNote, !.hit = TRUE]
    /\ raised' = FALSE
    /\ lastOp' = "get_addons_xml"
    /\ tasks' = <<>> /\ completed' = <<>>
    /\ UNCHANGED <<config, peer, addons, loadHist, now, caches, pc, last>>

\* get_addons_xml without one: lines 154-161, one task per add-on of the store
get_addons_xml_start ==
    /\ pc = "idle"
    /\ ~Valid(xmlCache, now)
    /\ pc' = "building"
    /\ tasks' = [k \in 1..Len(addons) |-> NewTask(addons[k])]
    /\ completed' = <<>>
    /\ ret' = NoRet
    /\ call' = [NoCall EXCEPT !.note = CallNote]
    /\ raised' = FALSE
    /\ lastOp' = "get_addons_xml"
    /\ last' = IF last.state = "cleared" THEN NoLast ELSE last
    /\ UNCHANGED <<config, peer, addons, loadHist, now, caches>>

\* get_addons_xml_md5 while get_addons_xml has a valid cache entry
get_addons_xml_md5_cached ==
    /\ pc = "idle"
    /\ Valid(xmlCache, now)
    /\ ret' = Returned("get_addons_xml_md5", xmlCache.value)
    /\ call' = [NoCall EXCEPT !.note = CallNote, !.hit = TRUE]
    /\ raised' = FALSE
    /\ lastOp' = "get_addons_xml_md5"
    /\ tasks' = <<>> /\ completed' = <<>>
    /\ UNCHANGED <<config, peer, addons, loadHist, now, caches, pc, last>>

\* get_addons_xml_md5 without one: its get_addons_xml call computes
get_addons_xml_md5_start ==
    /\ pc = "idle"
    /\ ~Valid(xmlCache, now)
    /\ pc' = "building"
    /\ tasks' = [k \in 1..Len(addons) |-> NewTask(addons[k])]
    /\ completed' = <<>>
    /\ ret' = NoRet
    /\ call' = [NoCall EXCEPT !.note = CallNote]
    /\ raised' = FALSE
    /\ lastOp' = "get_addons_xml_md5"
    /\ last' = IF last.state = "cleared" THEN NoLast ELSE last
    /\ UNCHANGED <<config, peer, addons, loadHist, now, caches>>

\* the next call to run: the pool's workers take the queued calls in
\* submission order, at most NumThreads at a time; the sequential path runs
\* call k+1 when call k returned
CanStart(i) ==
    /\ pc = "building"
    /\ i \in 1..Len(tasks)
    /\ tasks[i].st = "queued"
    /\ \A j \in 1..(i - 1) : tasks[j].st # "queued"
    /\ IF Sequential
       THEN Running = {} /\ \A j \in 1..(i - 1) : tasks[j].res # "exc"
       ELSE Cardinality(Running) < NumThreads

frame == <<config, peer, addons, loadHist, lastOp, raised, ret, call, last, xmlCache, pc>>

\* _get_addon_xml starts: _get_addon_branch (line 140) with a configured
\* branch or a cached release goes on to the GET of addon.xml
TaskStartResolved(i) ==
    /\ CanStart(i)
    /\ LET a == tasks[i].addon IN
       /\ Truthy(a.branch) \/ Valid(relCache[RelKey(a)], now)
       /\ tasks' = [tasks EXCEPT ![i] =
             [@ EXCEPT !.st = "fetch", !.fetched = TRUE,
                       !.branch = IF Truthy(a.branch) THEN a.branch
                                  ELSE relCache[RelKey(a)].value,
                       !.usedOld = ~Truthy(a.branch) /\ relCache[RelKey(a)].old]]
    /\ UNCHANGED <<frame, now, relCache, completed>>

\* ... and without either asks the releases endpoint
TaskStartLookup(i) ==
    /\ CanStart(i)
    /\ LET a == tasks[i].addon IN
       /\ ~Truthy(a.branch) /\ ~Valid(relCache[RelKey(a)], now)
       /\ tasks' = [tasks EXCEPT ![i] = [@ EXCEPT !.st = "lookup", !.looked = TRUE]]
    /\ UNCHANGED <<frame, now, relCache, completed>>

\* the releases endpoint answers a task: the exception of a failed request
\* leaves _get_addon_xml (line 144 is outside its try block); a value is
\* cached and the GET of addon.xml follows
LookupReturn(i, resp) ==
    /\ pc = "building"
    /\ i \in 1..Len(tasks)
    /\ tasks[i].st = "lookup"
    /\ LET b == ReleaseBody(resp, "master") IN
       IF b.raised
       THEN /\ tasks' = [tasks EXCEPT ![i] = [@ EXCEPT !.st = "done", !.res = "exc"]]
            /\ completed' = Append(completed, i)
            /\ UNCHANGED relCache
       ELSE /\ tasks' = [tasks EXCEPT ![i] =
                  [@ EXCEPT !.st = "fetch", !.fetched = TRUE, !.branch = b.value]]
            /\ relCache' = [relCache EXCEPT ![RelKey(tasks[i].addon)] = Stored(b.value, now)]
            /\ UNCHANGED completed
    /\ UNCHANGED <<frame, now>>

\* lines 146-150: the GET and the parse of addon.xml; any exception is logged
\* and None returned
FetchReturn(i, ok) ==
    /\ pc = "building"
    /\ i \in 1..Len(tasks)
    /\ tasks[i].st = "fetch"
    /\ tasks' = [tasks EXCEPT ![i] =
          [@ EXCEPT !.st = "done", !.res = IF ok THEN "ok" ELSE "none"]]
    /\ completed' = Append(completed, i)
    /\ UNCHANGED <<frame, now, relCache>>

\* faulty variant: the results are read only when every call has been made
CanFinishAllDone ==
    /\ pc = "building"
    /\ Running = {}
    /\ \A i \in 1..Len(tasks) : tasks[i].st = "done"

\* the results are read: after the pool has shut down (line 159), or as the
\* sequential map yields them; the first exception leaves get_addons_xml
CanFinish ==
    /\ pc = "building"
    /\ Running = {}
    /\ \/ \A i \in 1..Len(tasks) : tasks[i].st = "done"
       \/ Sequential /\ \E i \in 1..Len(tasks) : tasks[i].res = "exc"

\* an exception of a task leaves get_addons_xml: nothing is cached
BuildRaise ==
    /\ CanFinish
    /\ \E i \in 1..Len(tasks) : tasks[i].res = "exc"
    /\ pc' = "idle"
    /\ raised' = TRUE
    /\ UNCHANGED <<config, peer, addons, loadHist, lastOp, ret, call, last, now, caches,
                   tasks, completed>>

\* lines 163-167: the manifest is serialized, cached and returned
BuildReturn ==
    /\ CanFinish
    /\ \A i \in 1..Len(tasks) : tasks[i].res # "exc"
    /\ pc' = "idle"
    /\ LET xml == Assemble(tasks, completed) IN
       /\ ret' = Returned(lastOp, xml)
       /\ xmlCache' = Stored(xml, now)
       /\ last' = [state |-> "valid", xml |-> xml, at |-> now]
    /\ UNCHANGED <<config, peer, addons, loadHist, lastOp, raised, call, now, relCache,
                   tasks, completed>>

\* faulty variant: the release cache left as it is
ClearOnlyXml(xc, rc) == [xml |-> cache_clear(xc, <<>>), rel |-> rc]

\* clear_cache (lines 130-132) on the two caches
ClearBoth(xc, rc) ==
    [xml |-> cache_clear(xc, <<>>),
     rel |-> [k \in RelKeys |-> cache_clear(rc[k], "")]]

\* an entry that is still there is marked as older than the invalidation
MarkOld(c) == IF c.has THEN [c EXCEPT !.old = TRUE] ELSE c

clear_cache ==
    /\ pc = "idle"
    /\ LET r == ClearBoth(xmlCache, relCache) IN
       /\ xmlCache' = MarkOld(r.xml)
       /\ relCache' = [k \in RelKeys |-> MarkOld(r.rel[k])]
    /\ call' = [NoCall EXCEPT !.note =
                   IF xmlCache.has /\ (\E k \in RelKeys : relCache[k].has)
                   THEN "both" ELSE "some"]
    /\ last' = [NoLast EXCEPT !.state = "cleared"]
    /\ lastOp' = "clear_cache"
    /\ raised' = FALSE
    /\ ret' = NoRet
    /\ tasks' = <<>> /\ completed' = <<>>
    /\ UNCHANGED <<config, peer, addons, loadHist, now, pc>>

(***************************************************************************)
(* A second thread in get_addons_xml of the same Repository.  The cached   *)
(* wrapper looks for a valid entry, calls the operation when there is      *)
(* none and stores what it returned; it takes no lock, so the second       *)
(* thread runs the same steps on its own pool over the shared caches.      *)
(***************************************************************************)
peerFrame == <<config, addons, loadHist, lastOp, raised, ret, call, now, pc, tasks,
               completed>>

PeerThreads == Min(max_threads, Len(peer.tasks))

PeerRunning == {i \in 1..Len(peer.tasks) : InFlight(peer.tasks[i])}

peer_get_addons_xml_cached ==
    /\ peer.pc = "idle"
    /\ Valid(xmlCache, now)
    /\ peer' = [NoPeer EXCEPT !.hit = TRUE, !.xml = xmlCache.value]
    /\ UNCHANGED <<peerFrame, caches, last>>

peer_get_addons_xml_start ==
    /\ peer.pc = "idle"
    /\ ~Valid(xmlCache, now)
    /\ peer' = [NoPeer EXCEPT !.pc = "building",
                              !.tasks = [k \in 1..Len(addons) |-> NewTask(addons[k])]]
    /\ UNCHANGED <<peerFrame, caches, last>>

PeerCanStart(i) ==
    /\ peer.pc = "building"
    /\ i \in 1..Len(peer.tasks)
    /\ peer.tasks[i].st = "queued"
    /\ \A j \in 1..(i - 1) : peer.tasks[j].st # "queued"
    /\ IF PeerThreads <= 1
       THEN PeerRunning = {} /\ \A j \in 1..(i - 1) : peer.tasks[j].res # "exc"
       ELSE Cardinality(PeerRunning) < PeerThreads

PeerTaskStartResolved(i) ==
    /\ PeerCanStart(i)
    /\ LET a == peer.tasks[i].addon IN
       /\ Truthy(a.branch) \/ Valid(relCache[RelKey(a)], now)
       /\ peer' = [peer EXCEPT !.tasks[i] =
             [@ EXCEPT !.st = "fetch", !.fetched = TRUE,
                       !.branch = IF Truthy(a.branch) THEN a.branch
                                  ELSE relCache[RelKey(a)].value,
                       !.usedOld = ~Truthy(a.branch) /\ relCache[RelKey(a)].old]]
    /\ UNCHANGED <<peerFrame, caches, last>>

PeerTaskStartLookup(i) ==
    /\ PeerCanStart(i)
    /\ LET a == peer.tasks[i].addon IN
       /\ ~Truthy(a.branch) /\ ~Valid(relCache[RelKey(a)], now)
       /\ peer' = [peer EXCEPT !.tasks[i] = [@ EXCEPT !.st = "lookup", !.looked = TRUE]]
    /\ UNCHANGED <<peerFrame, caches, last>>

PeerLookupReturn(i, resp) ==
    /\ peer.pc = "building"
    /\ i \in 1..Len(peer.tasks)
    /\ peer.tasks[i].st = "lookup"
    /\ LET b == ReleaseBody(resp, "master") IN
       IF b.raised
       THEN /\ peer' = [peer EXCEPT !.tasks[i] = [@ EXCEPT !.st = "done", !.res = "exc"],
                                    !.completed = Append(@, i)]
            /\ UNCHANGED relCache
       ELSE /\ peer' = [peer EXCEPT !.tasks[i] =
                  [@ EXCEPT !.st = "fetch", !.fetched = TRUE, !.branch = b.value]]
            /\ relCache' = [relCache EXCEPT
                               ![RelKey(peer.tasks[i].addon)] = Stored(b.value, now)]
    /\ UNCHANGED <<peerFrame, xmlCache, last>>

PeerFetchReturn(i, ok) ==
    /\ peer.pc = "building"
    /\ i \in 1..Len(peer.tasks)
    /\ peer.tasks[i].st = "fetch"
    /\ peer' = [peer EXCEPT !.tasks[i] =
                    [@ EXCEPT !.st = "done", !.res = IF ok THEN "ok" ELSE "none"],
                            !.completed = Append(@, i)]
    /\ UNCHANGED <<peerFrame, caches, last>>

PeerCanFinish ==
    /\ peer.pc = "building"
    /\ PeerRunning = {}
    /\ \/ \A i \in 1..Len(peer.tasks) : peer.tasks[i].st = "done"
       \/ PeerThreads <= 1 /\ \E i \in 1..Len(peer.tasks) : peer.tasks[i].res = "exc"

PeerBuildRaise ==
    /\ PeerCanFinish
    /\ \E i \in 1..Len(peer.tasks) : peer.tasks[i].res = "exc"
    /\ peer' = [peer EXCEPT !.pc = "idle", !.raised = TRUE]
    /\ UNCHANGED <<peerFrame, caches, last>>

PeerBuildReturn ==
    /\ PeerCanFinish
    /\ \A i \in 1..Len(peer.tasks) : peer.tasks[i].res # "exc"
    /\ LET xml == Assemble(peer.tasks, peer.completed) IN
       /\ peer' = [peer EXCEPT !.pc = "idle", !.xml = xml]
       /\ xmlCache' = Stored(xml, now)
       /\ last' = [state |-> "valid", xml |-> xml, at |-> now]
    /\ UNCHANGED <<peerFrame, relCache>>

(***************************************************************************)
(* get_asset_url and the direct get_latest_release.  Asset names are       *)
(* sequences of characters.                                                *)
(***************************************************************************)
VERSION_SEPARATOR == <<"-">>

ADDON_EXTENSION == <<".", "z", "i", "p">>

StartsWith(x, prefix) ==
    Len(x) >= Len(prefix) /\ SubSeq(x, 1, Len(prefix)) = prefix

EndsWith(x, suffix) ==
    Len(x) >= Len(suffix) /\ SubSeq(x, Len(x) - Len(suffix) + 1, Len(x)) = suffix

\* the characters of an add-on id (the ids of the model are one character long)
Chars(i) == <<i>>

RECURSIVE Join(_)
Join(cs) == IF cs = <<>> THEN "" ELSE Head(cs) \o Join(Tail(cs))

\* line 181
IsArchive(addon_id, asset) ==
    /\ StartsWith(asset, Chars(addon_id) \o VERSION_SEPARATOR)
    /\ EndsWith(asset, ADDON_EXTENSION)

\* line 182: asset[len(addon_id) + len(VERSION_SEPARATOR):-len(ADDON_EXTENSION)]
VersionOf(addon_id, asset) ==
    SubSeq(asset, Len(Chars(addon_id)) + Len(VERSION_SEPARATOR) + 1,
           Len(asset) - Len(ADDON_EXTENSION))

HasKey(d, k) == \E kv \in d : kv[1] = k

Lookup(d, k) == (CHOOSE kv \in d : kv[1] = k)[2]

\* faulty variant: the assets mapping always looked up by the asset name
ResolvedUrlKeyByName(a, addon_id, asset, br) ==
    LET archive == IsArchive(addon_id, asset)
        base == [NoUrl EXCEPT !.username = a.username, !.repository = a.repository,
                              !.branch = br,
                              !.version = IF archive THEN VersionOf(addon_id, asset)
                                          ELSE <<>>]
    IN  IF HasKey(a.assets, Join(asset))
        THEN [base EXCEPT !.kind = "override", !.override = Lookup(a.assets, Join(asset))]
        ELSE IF archive THEN [base EXCEPT !.kind = "zip"]
        ELSE [base EXCEPT !.kind = "content", !.prefix = a.asset_prefix, !.name = asset]

\* lines 181-193 for a known add-on whose branch resolved to br
ResolvedUrl(a, addon_id, asset, br) ==
    LET archive == IsArchive(addon_id, asset)
        key == IF archive THEN "zip" ELSE Join(asset)
        base == [NoUrl EXCEPT !.username = a.username, !.repository = a.repository,
                              !.branch = br,
                              !.version = IF archive THEN VersionOf(addon_id, asset)
                                          ELSE <<>>]
    IN  IF HasKey(a.assets, key)
        THEN [base EXCEPT !.kind = "override", !.override = Lookup(a.assets, key)]
        ELSE IF archive THEN [base EXCEPT !.kind = "zip"]
        ELSE [base EXCEPT !.kind = "content", !.prefix = a.asset_prefix, !.name = asset]

\* lines 178-193: the add-on is known; its branch is resolved first
AssetUrlKnown(a, addon_id, asset, rc, t, resp) ==
    IF Truthy(a.branch)
    THEN [val |-> "url", url |-> ResolvedUrl(a, addon_id, asset, a.branch),
          raised |-> FALSE, net |-> 0, rel |-> rc, key |-> <<"", "">>]
    ELSE LET r == LatestRelease(rc, RelKey(a), t, resp) IN
         IF r.raised
         THEN [val |-> None, url |-> NoUrl, raised |-> TRUE, net |-> r.net,
               rel |-> r.rel, key |-> RelKey(a)]
         ELSE [val |-> "url", url |-> ResolvedUrl(a, addon_id, asset, r.value),
               raised |-> FALSE, net |-> r.net, rel |-> r.rel, key |-> RelKey(a)]

\* faulty variant: no test for an unknown id, so the attribute access on None raises
AssetUrlNoGuard(s, addon_id, asset, rc, t, resp) ==
    IF IndexOf(s, addon_id) = 0
    THEN [val |-> None, url |-> NoUrl, raised |-> TRUE, net |-> 0, rel |-> rc,
          key |-> <<"", "">>]
    ELSE AssetUrlKnown(s[IndexOf(s, addon_id)], addon_id, asset, rc, t, resp)

\* get_asset_url (lines 174-193) on store s and release cache rc at time t, the
\* releases endpoint answering resp if asked
AssetUrl(s, addon_id, asset, rc, t, resp) ==
    IF IndexOf(s, addon_id) = 0
    THEN [val |-> None, url |-> NoUrl, raised |-> FALSE, net |-> 0, rel |-> rc,
          key |-> <<"", "">>]
    ELSE AssetUrlKnown(s[IndexOf(s, addon_id)], addon_id, asset, rc, t, resp)

get_asset_url(addon_id, asset, resp) ==
    /\ pc = "idle"
    /\ LET r == AssetUrl(addons, addon_id, asset, relCache, now, resp) IN
       /\ ret' = [NoRet EXCEPT !.val = r.val, !.url = r.url]
       /\ raised' = r.raised
       /\ relCache' = r.rel
       /\ call' = [NoCall EXCEPT !.arg = addon_id, !.asset = asset, !.key = r.key,
                                 !.net = r.net,
                                 !.resp = IF r.net = 1 THEN resp ELSE "",
                                 !.touched = (r.rel # relCache)]
    /\ lastOp' = "get_asset_url"
    /\ tasks' = <<>> /\ completed' = <<>>
    /\ UNCHANGED <<config, peer, addons, loadHist, now, xmlCache, pc, last>>

\* get_latest_release(username, repository) called directly
get_latest_release(key, resp) ==
    /\ pc = "idle"
    /\ LET r == LatestRelease(relCache, key, now, resp) IN
       /\ ret' = [NoRet EXCEPT !.val = r.value]
       /\ raised' = r.raised
       /\ relCache' = r.rel
       /\ call' = [NoCall EXCEPT !.key = key, !.net = r.net,
                                 !.resp = IF r.net = 1 THEN resp ELSE "",
                                 !.touched = (r.rel # relCache)]
    /\ lastOp' = "get_latest_release"
    /\ tasks' = <<>> /\ completed' = <<>>
    /\ UNCHANGED <<config, peer, addons, loadHist, now, xmlCache, pc, last>>

\* "a-1.zip", "b-.zip", "zip", "x"
AssetNames ==
    {<<"a", "-", "1", ".", "z", "i", "p">>, <<"b", "-", ".", "z", "i", "p">>,
     <<"z", "i", "p">>, <<"x">>}

(***************************************************************************)
(* The clock.                                                              *)
(***************************************************************************)
TickSeconds == TTL \div 2

MaxTicks == 2

Tick ==
    /\ now < MaxTicks * TickSeconds
    /\ now' = now + TickSeconds
    /\ UNCHANGED <<config, peer, addons, loadHist, lastOp, raised, caches, pc, tasks,
                   completed, ret, call, last>>

(***************************************************************************)
(* The repository after construction over a source that held one of these  *)
(* entry lists (update ran in __init__), on linux, with empty caches.      *)
(***************************************************************************)
BuildFeeds == {<<>>, <<E1, E3>>, <<E2, E4>>, <<E2, E4, E5>>}

ThreadChoices == {1, 2}

InitBuild ==
    /\ platform = "linux"
    /\ max_threads \in ThreadChoices
    /\ \E feed \in BuildFeeds :
          LET r == UpdateResult(<<>>, FALSE, Readable(feed), Readable(<<>>), platform)
              log == PassLog(Readable(feed), Readable(<<>>), platform)
          IN  /\ addons = r.addons
              /\ beforeLoad = r.before
              /\ lastSeen = History([i \in Ids |-> NoEntry], FALSE, log, FALSE, platform)
              /\ lastAcc = History([i \in Ids |-> NoEntry], FALSE, log, TRUE, platform)
    /\ replaced = {}
    /\ lastOp = "init"
    /\ raised = FALSE
    /\ now = 0
    /\ xmlCache = NoValue(<<>>)
    /\ relCache = EmptyRelCache
    /\ pc = "idle"
    /\ tasks = <<>>
    /\ completed = <<>>
    /\ ret = NoRet
    /\ call = NoCall
    /\ last = NoLast
    /\ peer = NoPeer

NextBuild ==
    \/ get_addons_xml_cached
    \/ get_addons_xml_start
    \/ \E i \in 1..Len(tasks) : TaskStartResolved(i)
    \/ \E i \in 1..Len(tasks) : TaskStartLookup(i)
    \/ \E i \in 1..Len(tasks), resp \in ReleaseResponses : LookupReturn(i, resp)
    \/ \E i \in 1..Len(tasks), ok \in BOOLEAN : FetchReturn(i, ok)
    \/ BuildRaise
    \/ BuildReturn
    \/ clear_cache
    \/ Tick

SpecBuild == InitBuild /\ [][NextBuild]_vars

(***************************************************************************)
(* The manifest, its fingerprint and reloads of the store: the stores of   *)
(* at most two add-ons, reloaded from a url that holds entry E4.           *)
(***************************************************************************)
ReloadFeeds == {<<E4>>}

NextReload ==
    \/ get_addons_xml_cached
    \/ get_addons_xml_start
    \/ get_addons_xml_md5_cached
    \/ get_addons_xml_md5_start
    \/ \E i \in 1..Len(tasks) : TaskStartResolved(i)
    \/ \E i \in 1..Len(tasks) : TaskStartLookup(i)
    \/ \E i \in 1..Len(tasks), resp \in ReleaseResponses : LookupReturn(i, resp)
    \/ \E i \in 1..Len(tasks), ok \in BOOLEAN : FetchReturn(i, ok)
    \/ BuildRaise
    \/ BuildReturn
    \/ clear_cache
    \/ Tick
    \/ \E clear \in BOOLEAN, feed \in ReloadFeeds :
          update(clear, Readable(feed), Readable(<<>>))

InitReload == InitBuild /\ Len(addons) <= 2 /\ max_threads = 2

SpecReload == InitReload /\ [][NextReload]_vars

(***************************************************************************)
(* The build under fair scheduling: a worker that can take a queued call   *)
(* takes it, a request that is out gets its answer or its failure, and the *)
(* caller goes on once the results can be read.                            *)
(***************************************************************************)
TaskStart == \E i \in 1..Len(tasks) : TaskStartResolved(i) \/ TaskStartLookup(i)

LookupEnds == \E i \in 1..Len(tasks), resp \in ReleaseResponses : LookupReturn(i, resp)

FetchEnds == \E i \in 1..Len(tasks), ok \in BOOLEAN : FetchReturn(i, ok)

InitFair == InitBuild /\ Len(addons) <= 2

SpecBuildFair ==
    /\ InitFair
    /\ [][NextBuild]_vars
    /\ WF_vars(TaskStart)
    /\ WF_vars(LookupEnds)
    /\ WF_vars(FetchEnds)
    /\ WF_vars(BuildRaise)
    /\ WF_vars(BuildReturn)

(***************************************************************************)
(* Two threads calling get_addons_xml, on a store of one or two add-ons    *)
(* and a pool of two; the clock stands still.                              *)
(***************************************************************************)
CallerResponses == {"fail", "v1"}

NextCallers ==
    \/ get_addons_xml_cached
    \/ get_addons_xml_start
    \/ \E i \in 1..Len(tasks) : TaskStartResolved(i)
    \/ \E i \in 1..Len(tasks) : TaskStartLookup(i)
    \/ \E i \in 1..Len(tasks), resp \in CallerResponses : LookupReturn(i, resp)
    \/ \E i \in 1..Len(tasks), ok \in BOOLEAN : FetchReturn(i, ok)
    \/ BuildRaise
    \/ BuildReturn
    \/ peer_get_addons_xml_cached
    \/ peer_get_addons_xml_start
    \/ \E i \in 1..Len(peer.tasks) : PeerTaskStartResolved(i)
    \/ \E i \in 1..Len(peer.tasks) : PeerTaskStartLookup(i)
    \/ \E i \in 1..Len(peer.tasks), resp \in CallerResponses : PeerLookupReturn(i, resp)
    \/ \E i \in 1..Len(peer.tasks), ok \in BOOLEAN : PeerFetchReturn(i, ok)
    \/ PeerBuildRaise
    \/ PeerBuildReturn

InitCallers == InitBuild /\ Len(addons) \in 1..2 /\ max_threads = 2

SpecCallers == InitCallers /\ [][NextCallers]_vars

\* the argument pairs of the direct lookups: one that add-on "a" of E1 shares
DirectKeys == {<<"u1", "a">>}

NextAsset ==
    \/ \E i \in Ids, asset \in AssetNames, resp \in ReleaseResponses :
          get_asset_url(i, asset, resp)
    \/ \E key \in DirectKeys, resp \in ReleaseResponses : get_latest_release(key, resp)
    \/ clear_cache
    \/ Tick

\* the stores of at most two add-ons, one pool size
InitAsset == InitBuild /\ Len(addons) <= 2 /\ max_threads = 2

SpecAsset == InitAsset /\ [][NextAsset]_vars

(***************************************************************************)
(* Claims about loading (checked under SpecLoad).                          *)
(***************************************************************************)
InStore(i) == \E k \in 1..Len(addons) : addons[k].id = i

Record(i) == addons[IndexOf(addons, i)]

\* the record the specification describes for an accepted entry: the entry's
\* fields, repository defaulted to the id, assets and asset_prefix to empty
Expected(e) ==
    [id |-> e.id, username |-> e.username,
     branch |-> IF "branch" \in e.keys THEN e.branch ELSE None,
     assets |-> IF "assets" \in e.keys THEN e.assets ELSE {},
     asset_prefix |-> IF "asset_prefix" \in e.keys THEN e.asset_prefix ELSE "",
     repository |-> IF "repository" \in e.keys THEN e.repository ELSE e.id]

HasWhitelist(e) == "platforms" \in e.keys /\ Len(e.platforms) > 0

\* C6 (as claimed): when the load of a source raises, the Entry Store is
\* exactly as it was when the load of that source started.
C6_LoadAllOrNothing ==
    (lastOp = "update" /\ raised) => addons = beforeLoad

\* C7: the store holds at most one record per id, and the record of an id
\* carries the fields of the last accepted entry with that id (later sources
\* and later passes win), with repository defaulted to id and assets and
\* asset_prefix to empty.
C7_OneRecordPerIdLastWins ==
    /\ \A j, k \in 1..Len(addons) : addons[j].id = addons[k].id => j = k
    /\ \A i \in Ids :
          IF lastAcc[i] = NoEntry THEN ~InStore(i)
          ELSE InStore(i) /\ Record(i) = Expected(lastAcc[i])

\* a pass that assigned id "a" over an existing record and left E1's defaults
C7_Witness ==
    /\ "a" \in replaced
    /\ InStore("a") /\ Record("a").repository = "a" /\ Record("a").branch = None
    /\ InStore("b") /\ IndexOf(addons, "b") < IndexOf(addons, "a")

\* C8: an entry with no platform whitelist, or an empty one, is loaded on
\* every platform; no record of the store carries the fields of an entry whose
\* non-empty whitelist lacks the current platform name.
C8_PlatformFilter ==
    /\ \A i \in Ids :
          (lastSeen[i] # NoEntry /\ ~HasWhitelist(lastSeen[i]))
             => (InStore(i) /\ Record(i) = Expected(lastSeen[i]))
    /\ \A k \in 1..Len(addons) : \A e \in LoadCatalogue :
          (HasWhitelist(e) /\ ~InList(platform, e.platforms))
             => addons[k] # Expected(e)

\* on windows: E3 (linux only) was iterated over, E2 (empty whitelist) loaded
C8_Witness ==
    /\ platform = "windows"
    /\ lastOp = "update"
    /\ lastSeen["b"] = E3
    /\ lastSeen["a"] = E2 /\ InStore("a")

(***************************************************************************)
(* Claims about the build and its caches (checked under SpecBuild).        *)
(***************************************************************************)
\* get_addons_xml has ended (returned or raised)
BuildEnded == lastOp = "get_addons_xml" /\ pc = "idle"

\* ... and returned a manifest it computed in this call
BuildComputed == BuildEnded /\ ~raised /\ ~call.hit

Failed == {i \in 1..Len(tasks) : tasks[i].res # "ok"}

\* C1 (as claimed): whichever fetch tasks fail, at the release lookup, at the
\* GET or at the parse, get_addons_xml does not raise: it returns a manifest
\* and every failing add-on has simply yielded no result.
C1_BuildNeverAborts ==
    BuildEnded =>
        (~raised /\ \A i \in 1..Len(tasks) : tasks[i].res \in {"ok", "none"})

\* C2: a manifest computed over a store of N add-ons of which K failed their
\* fetch has exactly N-K fragments: one for each add-on that succeeded, none
\* for one that failed, none twice.
C2_ManifestCount ==
    BuildComputed =>
        /\ Len(tasks) = Len(addons)
        /\ Len(ret.xml) = Len(addons) - Cardinality(Failed)
        /\ \A i \in 1..Len(tasks) :
              Cardinality({p \in 1..Len(ret.xml) : ret.xml[p].id = addons[i].id})
                 = IF tasks[i].res = "ok" THEN 1 ELSE 0

\* two add-ons, one fetched, one failed
C2_Witness ==
    /\ BuildComputed
    /\ Len(addons) = 2 /\ Cardinality(Failed) = 1 /\ Len(ret.xml) = 1

\* C3: whatever the order the tasks ended in, the fragments of a computed
\* manifest are those of the successful fetches in the order of the store, so
\* the store and the fetch outcomes alone fix the manifest.
C3_StoreOrder ==
    BuildComputed =>
        /\ \A p, q \in 1..Len(ret.xml) :
              p < q => IndexOf(addons, ret.xml[p].id) < IndexOf(addons, ret.xml[q].id)
        /\ \A p \in 1..Len(ret.xml) :
              /\ IndexOf(addons, ret.xml[p].id) # 0
              /\ tasks[IndexOf(addons, ret.xml[p].id)].res = "ok"
              /\ ret.xml[p] = Fragment(tasks[IndexOf(addons, ret.xml[p].id)])
        /\ \A i \in 1..Len(tasks) :
              tasks[i].res = "ok" => \E p \in 1..Len(ret.xml) : ret.xml[p].id = addons[i].id

\* the second task ended before the first, both with an element
C3_Witness ==
    /\ BuildComputed
    /\ Len(completed) >= 2 /\ completed[1] = 2 /\ completed[2] = 1
    /\ tasks[1].res = "ok" /\ tasks[2].res = "ok"
    /\ Len(ret.xml) >= 2

\* C4, first half: a call within the TTL of the last computed manifest, with
\* no clear_cache in between, returns that manifest and issues no request.
C4_SecondCallCached ==
    (BuildEnded /\ call.note = "again") =>
        (~raised /\ call.hit /\ ret.xml = last.xml /\ tasks = <<>>)

\* C4, second half: the first call after clear_cache issues fresh requests
\* for every add-on of the store.
C4_FreshAfterClear ==
    (BuildEnded /\ call.note = "after_clear") =>
        /\ ~call.hit
        /\ Len(tasks) = Len(addons)
        /\ \A i \in 1..Len(tasks) : tasks[i].looked \/ tasks[i].fetched

\* C4 (as claimed): both halves.
C4_CachedThenFresh == C4_SecondCallCached /\ C4_FreshAfterClear

\* C5: clear_cache leaves no entry in the manifest cache nor in the release
\* cache, so no entry outlives an invalidation and no task resolves its branch
\* from a release value cached before one.
C5_ClearEmptiesBoth ==
    /\ lastOp = "clear_cache" =>
          (~xmlCache.has /\ \A k \in RelKeys : ~relCache[k].has)
    /\ ~xmlCache.old /\ \A k \in RelKeys : ~relCache[k].old
    /\ \A i \in 1..Len(tasks) : ~tasks[i].usedOld

\* clear_cache ran while both caches held an entry
C5_Witness == lastOp = "clear_cache" /\ call.note = "both"

(***************************************************************************)
(* Claims about asset resolution and the release lookup (SpecAsset).       *)
(***************************************************************************)
\* C9: get_asset_url for an id that is not in the store returns None, raises
\* nothing, issues no request and leaves the caches as they were.
C9_UnknownIdNone ==
    (lastOp = "get_asset_url" /\ ~InStore(call.arg)) =>
        /\ ret.val = None /\ ret.url = NoUrl
        /\ ~raised
        /\ call.net = 0
        /\ ~call.touched

\* an unknown id asked of a store that holds other add-ons
C9_Witness ==
    lastOp = "get_asset_url" /\ ~InStore(call.arg) /\ Len(addons) >= 2

\* C10: when the releases endpoint fails a lookup made by get_asset_url or by
\* a direct get_latest_release, the call raises: it returns no URL and no
\* branch, and the release cache gets no value from it.
C10_LookupFailurePropagates ==
    (lastOp \in {"get_asset_url", "get_latest_release"} /\ call.resp = "fail") =>
        /\ raised
        /\ ret.val = None /\ ret.url = NoUrl
        /\ ~call.touched
        /\ ~Valid(relCache[call.key], now)

\* get_asset_url of a known add-on without a branch met a failing endpoint
C10_Witness ==
    /\ lastOp = "get_asset_url" /\ call.resp = "fail"
    /\ InStore(call.arg) /\ ~Truthy(Record(call.arg).branch)

\* get_asset_url returned a URL for an add-on of the store
AssetResolved == lastOp = "get_asset_url" /\ InStore(call.arg) /\ ~raised

\* C11 (as claimed): for a record whose branch is a string, whatever its
\* value, get_asset_url uses that branch as it is, issues no request and
\* neither reads nor writes the release cache.
C11_SetBranchDirect ==
    (lastOp = "get_asset_url" /\ InStore(call.arg) /\ Record(call.arg).branch # None) =>
        /\ ~raised
        /\ ret.url.branch = Record(call.arg).branch
        /\ call.net = 0
        /\ call.key = <<"", "">>
        /\ ~call.touched

\* C12 (as claimed): for a record without a branch the resolved branch is the
\* tag_name of the answer when it has one and "master" whenever the answer
\* parses without a usable tag_name; it is never None.
C12_TagNameOrMaster ==
    (AssetResolved /\ Record(call.arg).branch = None) =>
        /\ ret.url.branch # None
        /\ call.resp = "v1" => ret.url.branch = "v1"
        /\ call.resp \in {"notag", "null"} => ret.url.branch = "master"

\* the asset name has the form <addon_id>-<version>.zip
ArchiveForm(addon_id, asset) ==
    \E p \in 1..(Len(asset) + 1) : \E q \in (p - 1)..Len(asset) :
        asset = Chars(addon_id) \o <<"-">> \o SubSeq(asset, p, q) \o <<".", "z", "i", "p">>

\* the branch a returned URL must carry: the configured one, or the value the
\* release cache holds for the add-on once the call is over
ResolvedBranch(a) ==
    IF Truthy(a.branch) THEN a.branch ELSE relCache[RelKey(a)].value

\* C13: for a known add-on the lookup key is "zip" for an asset named
\* <addon_id>-<version>.zip and the asset name otherwise; an assets entry under
\* that key overrides the default, which is the archive template with the
\* version taken from the name, or content base + asset_prefix + asset name;
\* the URL carries the owner, the repository and the resolved branch.
C13_TemplateChoice ==
    AssetResolved =>
        LET a == Record(call.arg)
            archive == ArchiveForm(call.arg, call.asset)
            key == IF archive THEN "zip" ELSE Join(call.asset)
            u == ret.url
        IN  /\ ret.val = "url"
            /\ u.username = a.username /\ u.repository = a.repository
            /\ u.branch = ResolvedBranch(a)
            /\ (\E kv \in a.assets : kv[1] = key) =>
                  (u.kind = "override" /\ <<key, u.override>> \in a.assets)
            /\ (~(\E kv \in a.assets : kv[1] = key) /\ archive) =>
                  /\ u.kind = "zip"
                  /\ call.asset = Chars(call.arg) \o <<"-">> \o u.version
                                     \o <<".", "z", "i", "p">>
            /\ (~(\E kv \in a.assets : kv[1] = key) /\ ~archive) =>
                  (u.kind = "content" /\ u.prefix = a.asset_prefix /\ u.name = call.asset)

\* "a-1.zip" of add-on "a" without an override: the archive URL, version "1",
\* at the branch the releases endpoint gave
C13_Witness ==
    /\ AssetResolved
    /\ call.arg = "a" /\ call.asset = <<"a", "-", "1", ".", "z", "i", "p">>
    /\ Record("a").assets = {}
    /\ ret.url.kind = "zip" /\ ret.url.version = <<"1">> /\ ret.url.branch = "v1"

\* the same name for an add-on whose assets mapping has a "zip" entry
C13_WitnessOverride ==
    /\ AssetResolved
    /\ call.asset = <<"a", "-", "1", ".", "z", "i", "p">>
    /\ ret.url.kind = "override" /\ ret.url.branch = "dev"

(***************************************************************************)
(* Claims about the fingerprint and reloads (checked under SpecReload).    *)
(***************************************************************************)
\* get_addons_xml_md5 has returned
Md5Returned == lastOp = "get_addons_xml_md5" /\ pc = "idle" /\ ~raised

\* C14: get_addons_xml_md5 returns the digest of the manifest the cache of
\* get_addons_xml holds when it returns; within the TTL of the last computed
\* manifest it computes nothing, issues no request and returns the digest of
\* that manifest; it starts tasks only when the cache had no valid entry.
C14_FingerprintOfCached ==
    Md5Returned =>
        /\ xmlCache.has /\ ret.val = Md5Hex(xmlCache.value)
        /\ call.note = "again" => (call.hit /\ ret.val = Md5Hex(last.xml))
        /\ call.hit => tasks = <<>>
        /\ ~call.hit => (Len(tasks) = Len(addons) /\ xmlCache.value = Assemble(tasks, completed))

\* the fingerprint of a cached manifest of two fragments, asked within its TTL
C14_Witness ==
    /\ Md5Returned /\ call.hit /\ call.note = "again"
    /\ Len(xmlCache.value) = 2

\* get_addons_xml or get_addons_xml_md5 has ended
ManifestCallEnded == lastOp \in {"get_addons_xml", "get_addons_xml_md5"} /\ pc = "idle"

\* C19: update, with or without clear, leaves the manifest cache and the
\* release cache as they are, and a call of get_addons_xml or of
\* get_addons_xml_md5 within the TTL of the last computed manifest, with no
\* clear_cache in between, still returns that manifest (or its digest) and
\* computes nothing, whatever the store has become.
C19_ReloadKeepsCaches ==
    /\ [][lastOp' = "update" => UNCHANGED <<xmlCache, relCache>>]_vars
    /\ []((ManifestCallEnded /\ call.note = "again") =>
            /\ ~raised /\ call.hit /\ tasks = <<>>
            /\ ret = Returned(lastOp, last.xml))

\* a manifest of two fragments returned from the cache after a reload with
\* clear left one add-on in the store, the release cache still filled
C19_Witness ==
    /\ ManifestCallEnded /\ call.hit /\ call.note = "again"
    /\ lastOp = "get_addons_xml" /\ Len(ret.xml) = 2
    /\ Len(addons) = 1
    /\ \E k \in RelKeys : relCache[k].has

(***************************************************************************)
(* Claims about concurrency (SpecCallers, SpecBuild).                      *)
(***************************************************************************)
\* C15 (as claimed): two threads that call get_addons_xml while its cache
\* has no valid entry never compute the manifest at the same time: the later
\* caller waits for the first and starts no tasks of its own.
C15_OneRecomputation == ~(pc = "building" /\ peer.pc = "building")

\* the tasks of the build waiting for the releases endpoint on one pair
LookupsInFlight(key) ==
    {i \in 1..Len(tasks) : tasks[i].st = "lookup" /\ RelKey(tasks[i].addon) = key}

\* C16 (as claimed): on the pool path of one build, at most one request to
\* the releases endpoint is in flight for a <<username, repository>> pair:
\* the other tasks of that pair take the cached value.
C16_OneLookupPerPair ==
    (pc = "building" /\ ~Sequential) =>
        \A key \in RelKeys : Cardinality(LookupsInFlight(key)) <= 1

\* C17, the bound and the order: never more than min(max_threads, number of
\* add-ons) calls of _get_addon_xml run at once, and when that number is at
\* most 1 a call starts only when those of all earlier add-ons have ended.
C17_BoundedInOrder ==
    pc = "building" =>
        /\ Cardinality(Running) <= NumThreads \/ (NumThreads = 0 /\ Running = {})
        /\ Sequential =>
              /\ Cardinality(Running) <= 1
              /\ \A i, j \in 1..Len(tasks) :
                    (i < j /\ tasks[j].st # "queued") => tasks[i].st = "done"

\* C17, the dispatch: a build that has ended made exactly one call of
\* _get_addon_xml for each add-on of the store, in the order of the store.
C17_OnePerAddon ==
    (BuildEnded /\ ~call.hit) =>
        /\ Len(tasks) = Len(addons)
        /\ \A i \in 1..Len(tasks) : tasks[i].addon = addons[i] /\ tasks[i].st = "done"

\* C17 (as claimed): both.
C17_BoundedOnePerAddon == C17_BoundedInOrder /\ C17_OnePerAddon

\* the dispatch clause for the builds in which no release lookup failed
C17_OnePerAddonUnlessRaised == raised \/ C17_OnePerAddon

\* a call of _get_addon_xml that was made: every call submitted to the pool,
\* and on the sequential path those the loop got to
Dispatched(i) == IF Sequential THEN tasks[i].st # "queued" ELSE TRUE

\* C18: under fair scheduling, with every request answered or failed, a
\* get_addons_xml that computes always ends, and when it has ended every
\* call of _get_addon_xml it dispatched has ended: none is still running, none
\* was submitted and not run.
C18_BuildEndsTasksDone ==
    /\ (pc = "building") ~> (pc = "idle")
    /\ []((BuildEnded /\ ~call.hit) =>
             /\ Running = {}
             /\ \A i \in 1..Len(tasks) : Dispatched(i) => tasks[i].st = "done")

\* a build on the pool path that ended by an exception of its first call, the
\* second call run to its end all the same
C18_Witness ==
    /\ BuildEnded /\ raised /\ ~Sequential
    /\ Len(tasks) = 2 /\ tasks[1].res = "exc" /\ tasks[2].res = "ok"

(***************************************************************************)
(* The platform filter and the records already in the store (SpecLoad).    *)
(***************************************************************************)
\* C20: in a load pass without clear, an id whose last iterated entry was
\* skipped by the platform filter and for which the pass accepted nothing new
\* keeps what it had: its earlier record with the same fields at the same
\* position, or no record if it had none.
C20_SkippedLeavesStore ==
    [][(lastOp' = "update" /\ call'.note = "keep") =>
          \A i \in Ids :
             (/\ lastSeen'[i] # NoEntry
              /\ Skipped(lastSeen'[i], platform)
              /\ lastAcc'[i] = lastAcc[i]) =>
                 IF InStore(i)
                 THEN /\ IndexOf(addons', i) = IndexOf(addons, i)
                      /\ addons'[IndexOf(addons, i)] = Record(i)
                 ELSE IndexOf(addons', i) = 0]_vars

\* on windows the store holds the record of E4 for "b", in second place,
\* after a pass without clear whose entry for "b" was E3, for linux only
C20_Witness ==
    /\ platform = "windows" /\ lastOp = "update" /\ call.note = "keep" /\ ~raised
    /\ lastSeen["b"] = E3 /\ lastAcc["b"] = E4
    /\ IndexOf(addons, "b") = 2 /\ Record("b") = Expected(E4)

====
